---------------------------- MODULE Spec2Model ----------------------------
(***************************************************************************)
(* ImageMatrix (src/main.py): the window ImageMatrixApp with its merge and *)
(* slice tabs, and the two worker threads StitcherThread and SlicerThread. *)
(*                                                                         *)
(* A path is a record [dir, name]; name is the file's basename as a        *)
(* sequence of one-character strings.  A Python list is modelled by its    *)
(* contents plus, for a worker thread, the flag "shares": the thread's     *)
(* image_paths is the very list object the window's attribute refers to.   *)
(***************************************************************************)
EXTENDS Integers, Sequences, FiniteSets, TLC

\* ------------------------------------------------------------------ bounds
\* the longest list of urls one drop carries
MaxDropLen == 2
\* jobs of one kind started in one run of the program
MaxJobs == 1

\* ------------------------------------------------------- characters, text
\* the characters used by the paths below, in code-point order
Alphabet == <<" ", ".", "0", "1", "2", "8", "G", "J", "P", "g", "j", "n", "p", "t", "x">>

Ord(c) == CHOOSE i \in 1..Len(Alphabet) : Alphabet[i] = c

Digits == {"0", "1", "2", "8"}

DigitVal(c) == CASE c = "0" -> 0 [] c = "1" -> 1 [] c = "2" -> 2 [] c = "8" -> 8

\* str.lower() on one character
LowerChar(c) == CASE c = "G" -> "g" [] c = "J" -> "j" [] c = "P" -> "p" [] OTHER -> c

Lower(s) == [i \in 1..Len(s) |-> LowerChar(s[i])]

\* str.endswith(suffix)
EndsWith(s, suf) ==
    /\ Len(suf) <= Len(s)
    /\ SubSeq(s, Len(s) - Len(suf) + 1, Len(s)) = suf

\* valid_extensions of dropEvent
valid_extensions ==
    { <<".", "j", "p", "g">>, <<".", "j", "p", "e", "g">>,
      <<".", "p", "n", "g">>, <<".", "p", "s", "d">> }

\* f.lower().endswith(valid_extensions)
IsSupported(p) == \E e \in valid_extensions : EndsWith(Lower(p.name), e)

\* os.path.basename(path)
basename(p) == p.name

\* ------------------------------------------------------------ the files
P2   == [dir |-> "a", name |-> <<"p", "2", ".", "p", "n", "g">>]
P10  == [dir |-> "a", name |-> <<"p", "1", "0", ".", "p", "n", "g">>]
\* the same file name as P2, in another directory
Q2   == [dir |-> "b", name |-> <<"p", "2", ".", "p", "n", "g">>]
\* an upper-case extension
PJ   == [dir |-> "a", name |-> <<"p", "8", ".", "J", "P", "G">>]
\* not an image
TXT  == [dir |-> "a", name |-> <<"n", ".", "t", "x", "t">>]

\* the files a drop on the merge tab may carry, and on the slice tab
MergeFiles == {P2, P10, Q2, TXT}
SliceFiles == {P2, P10, Q2, TXT}

\* the url lists of one drop over the files F: 1..MaxDropLen files, repeats allowed
Drops(F) == UNION { [1..n -> F] : n \in 1..MaxDropLen }

\* ---------------------------------------------------------- sequences
Range(s) == { s[i] : i \in 1..Len(s) }

\* the orders in which a Python set of these elements may be iterated
RECURSIVE Orders(_)
Orders(S) ==
    IF S = {} THEN {<<>>}
    ELSE UNION { { <<x>> \o s : s \in Orders(S \ {x}) } : x \in S }


\* ------------------------------------------------ sorter.sort_files
\* One run of a natural-sort key: a run of digits read as a number, or a run
\* of other characters kept as text.  A key starts with a text run (which may be
\* empty) and its runs alternate, so runs at the same position are of one kind.
TextRun(t) == [isnum |-> FALSE, txt |-> t, val |-> 0]
NumRun(n)  == [isnum |-> TRUE,  txt |-> <<>>, val |-> n]

AddChar(key, c) ==
    LET n == Len(key)
        last == key[n]
    IN  IF c \in Digits
        THEN IF last.isnum
             THEN [key EXCEPT ![n] = NumRun(last.val * 10 + DigitVal(c))]
             ELSE Append(key, NumRun(DigitVal(c)))
        ELSE IF last.isnum
             THEN Append(key, TextRun(<<c>>))
             ELSE [key EXCEPT ![n] = TextRun(Append(last.txt, c))]

RECURSIVE KeyFrom(_, _)
KeyFrom(s, key) == IF s = <<>> THEN key ELSE KeyFrom(Tail(s), AddChar(key, Head(s)))

\* the sort key of a path: its file name split into digit and non-digit runs
natural_key(p) == KeyFrom(basename(p), <<TextRun(<<>>)>>)

\* plain text order, by code point
RECURSIVE TextLess(_, _)
TextLess(s, t) ==
    IF t = <<>> THEN FALSE
    ELSE IF s = <<>> THEN TRUE
    ELSE IF Head(s) # Head(t) THEN Ord(Head(s)) < Ord(Head(t))
    ELSE TextLess(Tail(s), Tail(t))

RunLess(a, b) == IF a.isnum THEN a.val < b.val ELSE TextLess(a.txt, b.txt)

RECURSIVE KeyLess(_, _)
KeyLess(k, l) ==
    IF l = <<>> THEN FALSE
    ELSE IF k = <<>> THEN TRUE
    ELSE IF Head(k) # Head(l) THEN RunLess(Head(k), Head(l))
    ELSE KeyLess(Tail(k), Tail(l))

\* p sorts strictly before q: by key, equal keys by the file name as text
SortsBefore(p, q) ==
    \/ KeyLess(natural_key(p), natural_key(q))
    \/ /\ natural_key(p) = natural_key(q)
       /\ TextLess(basename(p), basename(q))

\* SortsBefore over the files of the model, evaluated once
AllFiles == MergeFiles \cup SliceFiles \cup {PJ}
SortsBeforeTable == [p \in AllFiles, q \in AllFiles |-> SortsBefore(p, q)]

\* x put before the first entry it sorts strictly before
RECURSIVE InsertSorted(_, _)
InsertSorted(x, s) ==
    IF s = <<>> THEN <<x>>
    ELSE IF SortsBeforeTable[x, Head(s)] THEN <<x>> \o s
    ELSE <<Head(s)>> \o InsertSorted(x, Tail(s))

\* sort_files(file_paths): the paths in natural order; paths that tie keep
\* the order they have in file_paths
RECURSIVE sort_files(_)
sort_files(s) ==
    IF s = <<>> THEN <<>>
    ELSE InsertSorted(s[Len(s)], sort_files(SubSeq(s, 1, Len(s) - 1)))


\* ------------------------------------------------------------- the state
VARIABLES
    tab,             \* self.tabs.currentIndex(): 0 merge, 1 slice
    merge_images,    \* contents of the list self.merge_images refers to
    slice_images,    \* contents of the list self.slice_images refers to
    m_split_max,     \* self.m_split_slider.maximum() (its minimum is 1)
    m_split_value,   \* self.m_split_slider.value()
    m_limit_value,   \* self.m_limit_slider.value()
    m_limit_label,   \* text of self.m_limit_label
    s_limit_value,   \* self.s_limit_slider.value()
    s_limit_label,   \* text of self.s_limit_label
    m_radio,         \* the checked radio of the merge tab
    m_custom_text,   \* self.m_custom_input.text()
    s_radio,         \* the checked radio of the slice tab
    s_custom_text,   \* self.s_custom_input.text()
    s_count_value,   \* self.s_count_slider.value()
    s_smart_check,   \* self.s_smart_check.isChecked()
    m_start_enabled, \* self.m_start_btn.isEnabled()
    s_start_enabled, \* self.s_start_btn.isEnabled()
    stitch_thread,   \* self.stitch_thread: its fields and where run() stands
    slicer_thread,   \* self.slicer_thread: its fields, run()'s locals and position
    m_signals,       \* finished_signal emissions of the stitcher queued for the window
    s_signals,       \* finished_signal emissions of the slicer queued for the window
    stitch_job,      \* history: the merge tab's list and controls when the job was started
    slice_job,       \* history: the slice tab's list and controls when the batch was started
    s_calls,         \* history: the slice_image calls of the current batch
    m_jobs,          \* history: stitch jobs started
    s_jobs,          \* history: slice batches started
    m_emits,         \* history: finished signals emitted by the current stitch job
    s_emits,         \* history: finished signals emitted by the current slice batch
    m_last,          \* history: the stitcher's last engine outcome and emitted signal
    s_last,          \* history: the slicer's last emitted signal
    last_event       \* history: the handler or thread step that ran last, and the files of a drop

ui_merge == <<merge_images, m_split_max, m_split_value, m_limit_value, m_limit_label,
              m_radio, m_custom_text, m_start_enabled>>
ui_slice == <<slice_images, s_limit_value, s_limit_label, s_radio, s_custom_text,
              s_count_value, s_smart_check, s_start_enabled>>
stitching == <<stitch_thread, m_signals, stitch_job, m_jobs, m_emits, m_last>>
slicing == <<slicer_thread, s_signals, slice_job, s_calls, s_jobs, s_emits, s_last>>
vars == <<tab, ui_merge, ui_slice, stitching, slicing>>
\* the program's state together with the record of the last event
observed_vars == <<vars, last_event>>

\* ------------------------------------------------------------ the values
\* a target width: None, or an integer
None == [none |-> TRUE, val |-> 0]
Width(n) == [none |-> FALSE, val |-> n]

\* the texts of a limit label
LabelDefault == [form |-> "kb_default", n |-> 200]   \* "大小限制：200 KB (默认)"
LabelUnlimited == [form |-> "unlimited", n |-> 0]    \* "大小限制：不限制"
LabelMB == [form |-> "mb", n |-> 1]                  \* "大小限制：1 MB"
LabelKB(kb) == [form |-> "kb", n |-> kb]             \* "大小限制：{kb_val} KB"

\* the message of a finished signal: which text it is and the values formatted in
Message(form, count, total, failed) ==
    [form |-> form, count |-> count, total |-> total, failed |-> failed]
\* str(e) of an exception raised by the engine
ExceptionText == Message("exception", 0, 0, <<>>)

Signal(success, message) == [success |-> success, message |-> message]
\* no signal emitted yet
NoSignal == Signal(FALSE, Message("nothing", 0, 0, <<>>))

\* what one call of slice_image or stitch_images does: return (True, msg),
\* return (False, msg), or raise
Outcomes == {"ok", "fail", "raise"}

NoStitcher ==
    [pc |-> "none", image_paths |-> <<>>, shares |-> FALSE, split_count |-> 0,
     target_width |-> None, max_kb |-> 0]

NoSlicer ==
    [pc |-> "none", image_paths |-> <<>>, shares |-> FALSE, count |-> 0,
     smart_mode |-> FALSE, target_width |-> None, max_kb |-> 0,
     idx |-> 0, success_count |-> 0, errors |-> <<>>]

NoStitchJob ==
    [image_paths |-> <<>>, split_value |-> 0, radio |-> "original", custom_text |-> <<>>,
     limit_value |-> 0]

NoSliceJob ==
    [image_paths |-> <<>>, count_value |-> 0, smart_check |-> FALSE, radio |-> "original",
     custom_text |-> <<>>, limit_value |-> 0]

\* the texts typed into a custom width field
CustomTexts == { <<>>, <<" ">>, <<"8">>, <<"x">> }

\* the record of an event: the handler or thread step, and what was dropped
Event(handler, files) == [handler |-> handler, files |-> files]
NoEvent == Event("none", <<>>)

\* positions the user moves the count slider to
CountChoices == {1, 5, 50}

Max(a, b) == IF a >= b THEN a ELSE b
Min(a, b) == IF a <= b THEN a ELSE b

\* ImageMatrixApp.__init__, initUI, init_merge_tab, init_slice_tab
Init ==
    /\ tab = 0
    /\ merge_images = <<>>
    /\ slice_images = <<>>
    /\ m_split_max = 1
    /\ m_split_value = 1
    /\ m_limit_value = 1
    /\ m_limit_label = LabelDefault
    /\ s_limit_value = 1
    /\ s_limit_label = LabelDefault
    /\ m_radio = "original"
    /\ m_custom_text = <<>>
    /\ s_radio = "original"
    /\ s_custom_text = <<>>
    /\ s_count_value = 5
    /\ s_smart_check = TRUE
    /\ m_start_enabled = TRUE
    /\ s_start_enabled = TRUE
    /\ stitch_thread = NoStitcher
    /\ slicer_thread = NoSlicer
    /\ m_signals = <<>>
    /\ s_signals = <<>>
    /\ stitch_job = NoStitchJob
    /\ slice_job = NoSliceJob
    /\ s_calls = <<>>
    /\ m_jobs = 0
    /\ s_jobs = 0
    /\ m_emits = 0
    /\ s_emits = 0
    /\ m_last = [outcome |-> "none", signal |-> NoSignal]
    /\ s_last = NoSignal
    /\ last_event = NoEvent


\* ------------------------------------------------------ widgets, helpers
\* QSlider keeps its value inside [minimum, maximum]
Clamp(v, lo, hi) == Max(lo, Min(v, hi))

\* update_limit_label without the branch of line 318-319
update_limit_label_no_zero(value) ==
    LET kb_val == value * 200
    IN  IF kb_val >= 1000 THEN LabelMB ELSE LabelKB(kb_val)

\* update_limit_label(value, label_widget): the text it sets
update_limit_label(value) ==
    LET kb_val == value * 200
    IN  IF value = 0 THEN LabelUnlimited
        ELSE IF kb_val >= 1000 THEN LabelMB
        ELSE LabelKB(kb_val)

\* str.strip() of a field's text
RECURSIVE StripLeft(_)
StripLeft(s) == IF s # <<>> /\ Head(s) = " " THEN StripLeft(Tail(s)) ELSE s
RECURSIVE StripRight(_)
StripRight(s) ==
    IF s # <<>> /\ s[Len(s)] = " " THEN StripRight(SubSeq(s, 1, Len(s) - 1)) ELSE s
StripText(s) == StripRight(StripLeft(s))

\* int(val_text): defined on a non-empty run of digits, ValueError otherwise
IsIntText(s) == s # <<>> /\ \A i \in 1..Len(s) : s[i] \in Digits
RECURSIVE IntOf(_)
IntOf(s) == IF s = <<>> THEN 0 ELSE IntOf(SubSeq(s, 1, Len(s) - 1)) * 10 + DigitVal(s[Len(s)])

\* the loop of lines 349-351 without the membership test
AppendAll(list, new) == list \o new

\* for img in new_images: if img not in self.slice_images: self.slice_images.append(img)
RECURSIVE AppendNew(_, _)
AppendNew(list, new) ==
    IF new = <<>> THEN list
    ELSE AppendNew(IF Head(new) \in Range(list) THEN list ELSE Append(list, Head(new)),
                   Tail(new))

\* ------------------------------------------------------------ the window
\* the user selects a tab
TabChange(i) ==
    /\ tab' = i
    /\ UNCHANGED <<ui_merge, ui_slice, stitching, slicing>>

\* MergeDrop, had it updated the list in place (extend and sort): a running
\* StitcherThread holding that list would see the new entries
MergeDropInPlace(new_images) ==
    \E order \in Orders(Range(merge_images \o new_images)) :
        /\ merge_images' = sort_files(order)
        /\ stitch_thread' = IF stitch_thread.shares
                            THEN [stitch_thread EXCEPT !.image_paths = merge_images']
                            ELSE stitch_thread
        /\ m_split_max' = Max(1, Len(merge_images'))
        /\ m_split_value' = Clamp(m_split_value, 1, m_split_max')
        /\ UNCHANGED <<m_limit_value, m_limit_label, m_radio, m_custom_text,
                       m_start_enabled, m_signals, stitch_job, m_jobs, m_emits, m_last,
                       ui_slice, slicing>>

\* dropEvent, merge tab (lines 343-346): merge_images is bound to a new sorted
\* list, built from a set whose iteration order is not determined; a running
\* StitcherThread keeps the list it was given.  setMaximum keeps the value in range.
MergeDrop(new_images) ==
    \E order \in Orders(Range(merge_images \o new_images)) :
        /\ merge_images' = sort_files(order)
        /\ stitch_thread' = [stitch_thread EXCEPT !.shares = FALSE]
        /\ m_split_max' = Max(1, Len(merge_images'))
        /\ m_split_value' = Clamp(m_split_value, 1, m_split_max')
        /\ UNCHANGED <<m_limit_value, m_limit_label, m_radio, m_custom_text,
                       m_start_enabled, m_signals, stitch_job, m_jobs, m_emits, m_last,
                       ui_slice, slicing>>

\* dropEvent, slice tab (lines 349-352): the list self.slice_images refers to is
\* appended to in place, so a SlicerThread holding that same list sees the new
\* entries.
SliceDrop(new_images) ==
    /\ slice_images' = AppendNew(slice_images, new_images)
    /\ slicer_thread' = IF slicer_thread.shares
                        THEN [slicer_thread EXCEPT !.image_paths = slice_images']
                        ELSE slicer_thread
    /\ UNCHANGED <<s_limit_value, s_limit_label, s_radio, s_custom_text, s_count_value,
                   s_smart_check, s_start_enabled, s_signals, slice_job, s_calls, s_jobs,
                   s_emits, s_last, ui_merge, stitching>>

\* IsSupported over the files of the model, evaluated once
SupportedFiles == { p \in AllFiles : IsSupported(p) }

\* dropEvent without the test of the current tab: every drop goes to the merge list
dropEvent_any_tab(files) ==
    LET new_images == SelectSeq(files, LAMBDA f : f \in SupportedFiles)
    IN  IF new_images = <<>> THEN UNCHANGED vars
        ELSE /\ UNCHANGED tab
             /\ MergeDrop(new_images)

\* dropEvent(event), files being the local files of the event's urls
dropEvent(files) ==
    LET new_images == SelectSeq(files, LAMBDA f : f \in SupportedFiles)
    IN  IF new_images = <<>>
        THEN UNCHANGED vars
        ELSE /\ UNCHANGED tab
             /\ IF tab = 0 THEN MergeDrop(new_images) ELSE SliceDrop(new_images)

\* clear_merge_list without lines 367-368, the slider left as it was
clear_merge_list_keeps_slider ==
    /\ merge_images' = <<>>
    /\ stitch_thread' = [stitch_thread EXCEPT !.shares = FALSE]
    /\ UNCHANGED <<tab, m_split_max, m_split_value, m_limit_value, m_limit_label, m_radio,
                   m_custom_text, m_start_enabled, m_signals, stitch_job, m_jobs, m_emits,
                   m_last, ui_slice, slicing>>

\* clear_merge_list: merge_images is bound to a new empty list
clear_merge_list ==
    /\ merge_images' = <<>>
    /\ stitch_thread' = [stitch_thread EXCEPT !.shares = FALSE]
    /\ m_split_max' = 1
    /\ m_split_value' = 1
    /\ UNCHANGED <<tab, m_limit_value, m_limit_label, m_radio, m_custom_text,
                   m_start_enabled, m_signals, stitch_job, m_jobs, m_emits, m_last,
                   ui_slice, slicing>>

\* clear_slice_list: slice_images is bound to a new empty list
clear_slice_list ==
    /\ slice_images' = <<>>
    /\ slicer_thread' = [slicer_thread EXCEPT !.shares = FALSE]
    /\ UNCHANGED <<tab, s_limit_value, s_limit_label, s_radio, s_custom_text,
                   s_count_value, s_smart_check, s_start_enabled, s_signals, slice_job,
                   s_calls, s_jobs, s_emits, s_last, ui_merge, stitching>>

\* the user moves the split slider; valueChanged only rewrites m_split_label
SplitSliderMove(v) ==
    /\ v \in 1..m_split_max
    /\ m_split_value' = v
    /\ UNCHANGED <<tab, merge_images, m_split_max, m_limit_value, m_limit_label, m_radio,
                   m_custom_text, m_start_enabled, ui_slice, stitching, slicing>>

\* the user moves the merge tab's limit slider; valueChanged -> update_limit_label
MLimitSliderMove(v) ==
    /\ v \in 0..5
    /\ v # m_limit_value
    /\ m_limit_value' = v
    /\ m_limit_label' = update_limit_label(v)
    /\ UNCHANGED <<tab, merge_images, m_split_max, m_split_value, m_radio, m_custom_text,
                   m_start_enabled, ui_slice, stitching, slicing>>

\* the user moves the slice tab's limit slider; valueChanged -> update_limit_label
SLimitSliderMove(v) ==
    /\ v \in 0..5
    /\ v # s_limit_value
    /\ s_limit_value' = v
    /\ s_limit_label' = update_limit_label(v)
    /\ UNCHANGED <<tab, slice_images, s_radio, s_custom_text, s_count_value,
                   s_smart_check, s_start_enabled, ui_merge, stitching, slicing>>

\* the user checks a width radio of the merge tab
MRadioSelect(r) ==
    /\ r \in {"original", "750", "1080", "custom"}
    /\ m_radio' = r
    /\ UNCHANGED <<tab, merge_images, m_split_max, m_split_value, m_limit_value,
                   m_limit_label, m_custom_text, m_start_enabled, ui_slice, stitching,
                   slicing>>

\* the user types into m_custom_input, enabled while the custom radio is checked
MCustomEdit(t) ==
    /\ m_radio = "custom"
    /\ m_custom_text' = t
    /\ UNCHANGED <<tab, merge_images, m_split_max, m_split_value, m_limit_value,
                   m_limit_label, m_radio, m_start_enabled, ui_slice, stitching, slicing>>

\* the user checks a width radio of the slice tab
SRadioSelect(r) ==
    /\ r \in {"original", "custom"}
    /\ s_radio' = r
    /\ UNCHANGED <<tab, slice_images, s_limit_value, s_limit_label, s_custom_text,
                   s_count_value, s_smart_check, s_start_enabled, ui_merge, stitching,
                   slicing>>

\* the user types into s_custom_input, enabled while the custom radio is checked
SCustomEdit(t) ==
    /\ s_radio = "custom"
    /\ s_custom_text' = t
    /\ UNCHANGED <<tab, slice_images, s_limit_value, s_limit_label, s_radio,
                   s_count_value, s_smart_check, s_start_enabled, ui_merge, stitching,
                   slicing>>

\* the user moves the count slider; valueChanged only rewrites s_count_label
CountSliderMove(v) ==
    /\ v \in 1..50
    /\ s_count_value' = v
    /\ UNCHANGED <<tab, slice_images, s_limit_value, s_limit_label, s_radio,
                   s_custom_text, s_smart_check, s_start_enabled, ui_merge, stitching,
                   slicing>>

\* the user toggles the smart-mode checkbox
SmartToggle ==
    /\ s_smart_check' = ~s_smart_check
    /\ UNCHANGED <<tab, slice_images, s_limit_value, s_limit_label, s_radio,
                   s_custom_text, s_count_value, s_start_enabled, ui_merge, stitching,
                   slicing>>


\* ------------------------------------------------------------- the jobs
\* start_stitching, lines 386-398: the width the radios select; ok is FALSE
\* where the handler warns and returns
MergeWidth(radio, text) ==
    CASE radio = "750" -> [ok |-> TRUE, width |-> Width(750)]
      [] radio = "1080" -> [ok |-> TRUE, width |-> Width(1080)]
      [] radio = "custom" ->
            LET val_text == StripText(text)
            IN  IF IsIntText(val_text)
                THEN [ok |-> TRUE, width |-> Width(IntOf(val_text))]
                ELSE [ok |-> FALSE, width |-> None]
      [] OTHER -> [ok |-> TRUE, width |-> None]

MergeTargetWidth == MergeWidth(m_radio, m_custom_text)

\* the slice tab's width read the way the merge tab reads it: an empty custom
\* field is refused
SliceWidthStrict(radio, text) ==
    IF radio = "custom"
    THEN LET val_text == StripText(text)
         IN  IF IsIntText(val_text)
             THEN [ok |-> TRUE, width |-> Width(IntOf(val_text))]
             ELSE [ok |-> FALSE, width |-> None]
    ELSE [ok |-> TRUE, width |-> None]

\* start_slicing, lines 429-441
SliceWidth(radio, text) ==
    IF radio = "custom"
    THEN LET val_text == StripText(text)
         IN  IF val_text = <<>> THEN [ok |-> TRUE, width |-> Width(750)]
             ELSE IF IsIntText(val_text)
             THEN [ok |-> TRUE, width |-> Width(IntOf(val_text))]
             ELSE [ok |-> FALSE, width |-> None]
    ELSE [ok |-> TRUE, width |-> None]

SliceTargetWidth == SliceWidth(s_radio, s_custom_text)

\* the size limit a job is given: the slider position times 200
limit_val(value) == value * 200

\* StitcherThread(self.merge_images, desktop_path, split_count, target_width, limit_val):
\* the thread stores the list it is passed, not a copy
NewStitcher(target_width) ==
    [pc |-> "run", image_paths |-> merge_images, shares |-> TRUE,
     split_count |-> m_split_value, target_width |-> target_width,
     max_kb |-> limit_val(m_limit_value)]

\* SlicerThread(self.slice_images, desktop_path, count, smart_mode, target_width, limit_val)
NewSlicer(target_width) ==
    [pc |-> "loop", image_paths |-> slice_images, shares |-> TRUE,
     count |-> s_count_value, smart_mode |-> s_smart_check,
     target_width |-> target_width, max_kb |-> limit_val(s_limit_value),
     idx |-> 0, success_count |-> 0, errors |-> <<>>]

\* start_stitching without line 403: the start button stays enabled
start_stitching_keeps_button ==
    /\ m_start_enabled
    /\ m_jobs < MaxJobs
    /\ IF merge_images = <<>> \/ ~MergeTargetWidth.ok
       THEN UNCHANGED vars
       ELSE /\ stitch_thread' = NewStitcher(MergeTargetWidth.width)
            /\ stitch_job' = [image_paths |-> merge_images, split_value |-> m_split_value,
                              radio |-> m_radio, custom_text |-> m_custom_text,
                              limit_value |-> m_limit_value]
            /\ m_jobs' = m_jobs + 1
            /\ m_emits' = 0
            /\ UNCHANGED <<tab, ui_merge, m_signals, m_last, ui_slice, slicing>>

\* start_stitching: a click on the enabled start button of the merge tab
start_stitching ==
    /\ m_start_enabled
    /\ m_jobs < MaxJobs
    /\ IF merge_images = <<>> \/ ~MergeTargetWidth.ok
       THEN UNCHANGED vars
       ELSE /\ m_start_enabled' = FALSE
            /\ stitch_thread' = NewStitcher(MergeTargetWidth.width)
            /\ stitch_job' = [image_paths |-> merge_images,
                              split_value |-> m_split_value,
                              radio |-> m_radio,
                              custom_text |-> m_custom_text,
                              limit_value |-> m_limit_value]
            /\ m_jobs' = m_jobs + 1
            /\ m_emits' = 0
            /\ UNCHANGED m_last
            /\ UNCHANGED <<tab, merge_images, m_split_max, m_split_value, m_limit_value,
                           m_limit_label, m_radio, m_custom_text, m_signals, ui_slice,
                           slicing>>

\* start_slicing without the check of lines 419-421: an empty list is dispatched too
start_slicing_unchecked ==
    /\ s_start_enabled
    /\ s_jobs < MaxJobs
    /\ IF ~SliceTargetWidth.ok
       THEN UNCHANGED vars
       ELSE /\ s_start_enabled' = FALSE
            /\ slicer_thread' = NewSlicer(SliceTargetWidth.width)
            /\ slice_job' = [image_paths |-> slice_images, count_value |-> s_count_value,
                             smart_check |-> s_smart_check, radio |-> s_radio,
                             custom_text |-> s_custom_text, limit_value |-> s_limit_value]
            /\ s_jobs' = s_jobs + 1
            /\ s_emits' = 0
            /\ s_calls' = <<>>
            /\ UNCHANGED <<tab, slice_images, s_limit_value, s_limit_label, s_radio,
                           s_custom_text, s_count_value, s_smart_check, s_signals,
                           s_last, ui_merge, stitching>>

\* start_slicing: a click on the enabled start button of the slice tab
start_slicing ==
    /\ s_start_enabled
    /\ s_jobs < MaxJobs
    /\ IF slice_images = <<>> \/ ~SliceTargetWidth.ok
       THEN UNCHANGED vars
       ELSE /\ s_start_enabled' = FALSE
            /\ slicer_thread' = NewSlicer(SliceTargetWidth.width)
            /\ slice_job' = [image_paths |-> slice_images,
                             count_value |-> s_count_value,
                             smart_check |-> s_smart_check,
                             radio |-> s_radio,
                             custom_text |-> s_custom_text,
                             limit_value |-> s_limit_value]
            /\ s_jobs' = s_jobs + 1
            /\ s_emits' = 0
            /\ s_calls' = <<>>
            /\ UNCHANGED s_last
            /\ UNCHANGED <<tab, slice_images, s_limit_value, s_limit_label, s_radio,
                           s_custom_text, s_count_value, s_smart_check, s_signals,
                           ui_merge, stitching>>

\* StitcherThread.run, lines 28-31: the signal emitted for what stitch_images did
StitcherResult(outcome) ==
    CASE outcome = "ok" -> Signal(TRUE, Message("stitched", 0, 0, <<>>))
      [] outcome = "fail" -> Signal(FALSE, Message("not_stitched", 0, 0, <<>>))
      [] outcome = "raise" -> Signal(FALSE, ExceptionText)

\* StitcherThread.run without its except clause: an exception ends the thread
\* and nothing is emitted
StitcherRunNoExcept(outcome) ==
    /\ stitch_thread.pc = "run"
    /\ IF outcome = "raise"
       THEN UNCHANGED <<m_signals, m_emits>>
       ELSE /\ m_signals' = Append(m_signals, StitcherResult(outcome))
            /\ m_emits' = m_emits + 1
    /\ m_last' = [outcome |-> outcome, signal |-> StitcherResult(outcome)]
    /\ stitch_thread' = [stitch_thread EXCEPT !.pc = "finished"]
    /\ UNCHANGED <<tab, ui_merge, ui_slice, stitch_job, m_jobs, slicing>>

\* StitcherThread.run: one call of stitch_images, then one emit
StitcherRun(outcome) ==
    /\ stitch_thread.pc = "run"
    /\ m_signals' = Append(m_signals, StitcherResult(outcome))
    /\ m_emits' = m_emits + 1
    /\ m_last' = [outcome |-> outcome, signal |-> StitcherResult(outcome)]
    /\ stitch_thread' = [stitch_thread EXCEPT !.pc = "finished"]
    /\ UNCHANGED <<tab, ui_merge, ui_slice, stitch_job, m_jobs, slicing>>

\* on_stitching_finished: the queued signal reaches the window
on_stitching_finished ==
    /\ m_signals # <<>>
    /\ m_signals' = Tail(m_signals)
    /\ m_start_enabled' = TRUE
    /\ UNCHANGED <<tab, merge_images, m_split_max, m_split_value, m_limit_value,
                   m_limit_label, m_radio, m_custom_text, stitch_thread, stitch_job,
                   m_jobs, m_emits, m_last, ui_slice, slicing>>

\* SlicerThread.run, lines 49-54: the loop takes the next entry of image_paths
\* and calls slice_image on it; an exception leaves the loop for line 65-66
SlicerIterate(outcome) ==
    /\ slicer_thread.pc = "loop"
    /\ slicer_thread.idx < Len(slicer_thread.image_paths)
    /\ LET path == slicer_thread.image_paths[slicer_thread.idx + 1]
           next == [slicer_thread EXCEPT !.idx = @ + 1]
       IN  /\ s_calls' = Append(s_calls, [path |-> path, outcome |-> outcome])
           /\ CASE outcome = "ok" ->
                    /\ slicer_thread' = [next EXCEPT !.success_count = @ + 1]
                    /\ UNCHANGED <<s_signals, s_emits, s_last>>
                [] outcome = "fail" ->
                    /\ slicer_thread' = [next EXCEPT !.errors = Append(@, basename(path))]
                    /\ UNCHANGED <<s_signals, s_emits, s_last>>
                [] outcome = "raise" ->
                    /\ slicer_thread' = [next EXCEPT !.pc = "finished"]
                    /\ s_signals' = Append(s_signals, Signal(FALSE, ExceptionText))
                    /\ s_emits' = s_emits + 1
                    /\ s_last' = Signal(FALSE, ExceptionText)
    /\ UNCHANGED <<tab, ui_merge, ui_slice, stitching, slice_job, s_jobs>>

\* SlicerThread.run, line 49: the list iterator finds no further entry
SlicerLoopEnd ==
    /\ slicer_thread.pc = "loop"
    /\ slicer_thread.idx >= Len(slicer_thread.image_paths)
    /\ slicer_thread' = [slicer_thread EXCEPT !.pc = "report"]
    /\ UNCHANGED <<tab, ui_merge, ui_slice, stitching, s_signals, slice_job, s_calls,
                   s_jobs, s_emits, s_last>>

\* SlicerThread.run, lines 56-63: the signal the batch ends with
SlicerSummary(t) ==
    IF t.success_count = Len(t.image_paths)
    THEN Signal(TRUE, Message("all", t.success_count, t.success_count, <<>>))
    ELSE IF t.success_count > 0
    THEN Signal(TRUE, Message("partial", t.success_count, Len(t.image_paths), t.errors))
    ELSE Signal(FALSE, Message("none", 0, 0, t.errors))

SlicerReport ==
    /\ slicer_thread.pc = "report"
    /\ s_signals' = Append(s_signals, SlicerSummary(slicer_thread))
    /\ s_emits' = s_emits + 1
    /\ s_last' = SlicerSummary(slicer_thread)
    /\ slicer_thread' = [slicer_thread EXCEPT !.pc = "finished"]
    /\ UNCHANGED <<tab, ui_merge, ui_slice, stitching, slice_job, s_calls, s_jobs>>

\* on_slicing_finished: the queued signal reaches the window
on_slicing_finished ==
    /\ s_signals # <<>>
    /\ s_signals' = Tail(s_signals)
    /\ s_start_enabled' = TRUE
    /\ UNCHANGED <<tab, slice_images, s_limit_value, s_limit_label, s_radio,
                   s_custom_text, s_count_value, s_smart_check, slicer_thread, slice_job,
                   s_calls, s_jobs, s_emits, s_last, ui_merge, stitching>>

\* ------------------------------------------------------ specifications
\* the whole program
\* last_event records the step just taken; a specification that does not need
\* the record leaves it at its initial value
Observed(handler, files) == last_event' = Event(handler, files)
Unobserved == UNCHANGED last_event

Next ==
    \/ \E i \in {0, 1} : TabChange(i) /\ Observed("currentChanged", <<>>)
    \/ \E files \in Drops(AllFiles) : dropEvent(files) /\ Observed("dropEvent", files)
    \/ clear_merge_list /\ Observed("clear_merge_list", <<>>)
    \/ clear_slice_list /\ Observed("clear_slice_list", <<>>)
    \/ \E v \in 1..m_split_max : SplitSliderMove(v) /\ Observed("valueChanged", <<>>)
    \/ \E v \in 0..5 : MLimitSliderMove(v) /\ Observed("update_limit_label", <<>>)
    \/ \E v \in 0..5 : SLimitSliderMove(v) /\ Observed("update_limit_label", <<>>)
    \/ \E r \in {"original", "750", "1080", "custom"} : MRadioSelect(r) /\ Observed("toggled", <<>>)
    \/ \E t \in CustomTexts : MCustomEdit(t) /\ Observed("textEdited", <<>>)
    \/ \E r \in {"original", "custom"} : SRadioSelect(r) /\ Observed("toggled", <<>>)
    \/ \E t \in CustomTexts : SCustomEdit(t) /\ Observed("textEdited", <<>>)
    \/ \E v \in CountChoices : CountSliderMove(v) /\ Observed("valueChanged", <<>>)
    \/ SmartToggle /\ Observed("toggled", <<>>)
    \/ start_stitching /\ Observed("start_stitching", <<>>)
    \/ \E o \in Outcomes : StitcherRun(o) /\ Observed("StitcherThread.run", <<>>)
    \/ on_stitching_finished /\ Observed("on_stitching_finished", <<>>)
    \/ start_slicing /\ Observed("start_slicing", <<>>)
    \/ \E o \in Outcomes : SlicerIterate(o) /\ Observed("SlicerThread.run", <<>>)
    \/ SlicerLoopEnd /\ Observed("SlicerThread.run", <<>>)
    \/ SlicerReport /\ Observed("SlicerThread.run", <<>>)
    \/ on_slicing_finished /\ Observed("on_slicing_finished", <<>>)

Spec == Init /\ [][Next]_observed_vars

\* the slice tab at work: the program with the merge tab's controls left alone
SliceNext ==
    \/ \E i \in {0, 1} : TabChange(i) /\ Unobserved
    \/ \E files \in Drops(SliceFiles) : tab = 1 /\ dropEvent(files) /\ Unobserved
    \/ clear_slice_list /\ Unobserved
    \/ start_slicing /\ Unobserved
    \/ \E o \in Outcomes : SlicerIterate(o) /\ Unobserved
    \/ SlicerLoopEnd /\ Unobserved
    \/ SlicerReport /\ Unobserved
    \/ on_slicing_finished /\ Unobserved

SliceSpec == Init /\ [][SliceNext]_vars

\* the merge list at work: drops, clears, the split slider and stitch jobs
MergeNext ==
    \/ \E files \in Drops(MergeFiles) : tab = 0 /\ dropEvent(files) /\ Unobserved
    \/ clear_merge_list /\ Unobserved
    \/ \E v \in 1..m_split_max : SplitSliderMove(v) /\ Unobserved
    \/ start_stitching /\ Unobserved
    \/ \E o \in Outcomes : StitcherRun(o) /\ Unobserved
    \/ on_stitching_finished /\ Unobserved

MergeSpec == Init /\ [][MergeNext]_vars

\* a stitch job and the merge tab's controls: every control of the tab is
\* operated while a job over the files StitchFiles runs
StitchFiles == {P2, P10}
StitchLimits == {0, 1, 5}
StitchRadios == {"original", "1080", "custom"}
StitchTexts == { <<"8">> }

StitchNext ==
    \/ \E files \in Drops(StitchFiles) : tab = 0 /\ dropEvent(files) /\ Unobserved
    \/ clear_merge_list /\ Unobserved
    \/ \E v \in 1..m_split_max : SplitSliderMove(v) /\ Unobserved
    \/ \E v \in StitchLimits : MLimitSliderMove(v) /\ Unobserved
    \/ \E r \in StitchRadios : MRadioSelect(r) /\ Unobserved
    \/ \E t \in StitchTexts : MCustomEdit(t) /\ Unobserved
    \/ start_stitching /\ Unobserved
    \/ \E o \in Outcomes : StitcherRun(o) /\ Unobserved
    \/ on_stitching_finished /\ Unobserved

StitchSpec == Init /\ [][StitchNext]_vars

\* the limit sliders of both tabs and the jobs started under them
LimitNext ==
    \/ \E i \in {0, 1} : TabChange(i) /\ Unobserved
    \/ dropEvent(<<P2>>) /\ Unobserved
    \/ \E v \in 0..5 : MLimitSliderMove(v) /\ Unobserved
    \/ \E v \in 0..5 : SLimitSliderMove(v) /\ Unobserved
    \/ start_stitching /\ Unobserved
    \/ StitcherRun("ok") /\ Unobserved
    \/ on_stitching_finished /\ Unobserved
    \/ start_slicing /\ Unobserved
    \/ SlicerIterate("ok") /\ Unobserved
    \/ SlicerLoopEnd /\ Unobserved
    \/ SlicerReport /\ Unobserved
    \/ on_slicing_finished /\ Unobserved

LimitSpec == Init /\ [][LimitNext]_vars

\* jobs of both kinds from start to the handling of their finished signal.  A
\* started QThread runs, and the window's event loop delivers every queued
\* signal: the steps of the threads and the two finished handlers are weakly fair.
LiveFiles == {P2, P10}

LiveNext ==
    \/ \E i \in {0, 1} : TabChange(i) /\ Unobserved
    \/ \E files \in Drops(LiveFiles) : dropEvent(files) /\ Unobserved
    \/ start_stitching /\ Unobserved
    \/ \E o \in Outcomes : StitcherRun(o) /\ Unobserved
    \/ on_stitching_finished /\ Unobserved
    \/ start_slicing /\ Unobserved
    \/ \E o \in Outcomes : SlicerIterate(o) /\ Unobserved
    \/ SlicerLoopEnd /\ Unobserved
    \/ SlicerReport /\ Unobserved
    \/ on_slicing_finished /\ Unobserved

LiveSpec ==
    /\ Init
    /\ [][LiveNext]_vars
    /\ WF_vars(\E o \in Outcomes : StitcherRun(o))
    /\ WF_vars(on_stitching_finished)
    /\ WF_vars(\E o \in Outcomes : SlicerIterate(o))
    /\ WF_vars(SlicerLoopEnd)
    /\ WF_vars(SlicerReport)
    /\ WF_vars(on_slicing_finished)


\* the start buttons at work: lists are filled and cleared, jobs of both kinds
\* are started and run to the handling of their finished signal, and every step
\* is recorded
JobFiles == {P2}

JobsNext ==
    \/ \E i \in {0, 1} : TabChange(i) /\ Observed("currentChanged", <<>>)
    \/ \E files \in Drops(JobFiles) : dropEvent(files) /\ Observed("dropEvent", files)
    \/ clear_merge_list /\ Observed("clear_merge_list", <<>>)
    \/ clear_slice_list /\ Observed("clear_slice_list", <<>>)
    \/ start_stitching /\ Observed("start_stitching", <<>>)
    \/ \E o \in Outcomes : StitcherRun(o) /\ Observed("StitcherThread.run", <<>>)
    \/ on_stitching_finished /\ Observed("on_stitching_finished", <<>>)
    \/ start_slicing /\ Observed("start_slicing", <<>>)
    \/ \E o \in Outcomes : SlicerIterate(o) /\ Observed("SlicerThread.run", <<>>)
    \/ SlicerLoopEnd /\ Observed("SlicerThread.run", <<>>)
    \/ SlicerReport /\ Observed("SlicerThread.run", <<>>)
    \/ on_slicing_finished /\ Observed("on_slicing_finished", <<>>)

JobsSpec == Init /\ [][JobsNext]_observed_vars

\* the width controls of both tabs and the jobs started under them: one file is
\* dropped on either tab, every radio is checked, the custom fields are edited,
\* and the start buttons are clicked
WidthNext ==
    \/ \E i \in {0, 1} : TabChange(i) /\ Observed("currentChanged", <<>>)
    \/ dropEvent(<<P2>>) /\ Observed("dropEvent", <<P2>>)
    \/ \E r \in {"original", "750", "1080", "custom"} : MRadioSelect(r) /\ Observed("toggled", <<>>)
    \/ \E t \in CustomTexts : MCustomEdit(t) /\ Observed("textEdited", <<>>)
    \/ \E r \in {"original", "custom"} : SRadioSelect(r) /\ Observed("toggled", <<>>)
    \/ \E t \in CustomTexts : SCustomEdit(t) /\ Observed("textEdited", <<>>)
    \/ start_stitching /\ Observed("start_stitching", <<>>)
    \/ start_slicing /\ Observed("start_slicing", <<>>)

WidthSpec == Init /\ [][WidthNext]_observed_vars

\* the two lists at work: files of supported and unsupported extensions, in
\* lower and upper case, are dropped on either tab and the lists are cleared
DropFiles == {P2, PJ, TXT}

DropNext ==
    \/ \E i \in {0, 1} : TabChange(i) /\ Observed("currentChanged", <<>>)
    \/ \E files \in Drops(DropFiles) : dropEvent(files) /\ Observed("dropEvent", files)
    \/ clear_merge_list /\ Observed("clear_merge_list", <<>>)
    \/ clear_slice_list /\ Observed("clear_slice_list", <<>>)

DropSpec == Init /\ [][DropNext]_observed_vars

\* ------------------------------------------------------------ the claims
\* the slice_image calls of the current batch that returned a failure result
FailedCalls == SelectSeq(s_calls, LAMBDA c : c.outcome = "fail")
CallNames(calls) == [i \in 1..Len(calls) |-> basename(calls[i].path)]
CallPaths(calls) == [i \in 1..Len(calls) |-> calls[i].path]
\* the batch has emitted its finished signal
BatchEnded == slicer_thread.pc = "finished"
NoCallRaised == \A i \in 1..Len(s_calls) : s_calls[i].outcome # "raise"

\* C1: when a batch has ended in which slice_image was called on n sources and
\* returned a failure result for f of them, 0 < f < n, and a success for the rest,
\* the finished signal has success = TRUE and its message reports n - f of n and
\* lists the basename of each failed source once, in the order they failed.
C1_PartialReport ==
    LET n == Len(s_calls)
        f == Len(FailedCalls)
    IN  (BatchEnded /\ NoCallRaised /\ 0 < f /\ f < n) =>
            /\ s_last.success
            /\ s_last.message.form = "partial"
            /\ s_last.message.count = n - f
            /\ s_last.message.total = n
            /\ s_last.message.failed = CallNames(FailedCalls)

\* C2: when a batch has ended, slice_image was called exactly once on every
\* source the batch was started with, whatever the earlier calls did, a raised
\* error included.
C2_EverySourceSliced ==
    BatchEnded =>
        \A p \in Range(slice_job.image_paths) :
            Cardinality({i \in 1..Len(s_calls) : s_calls[i].path = p}) = 1

\* C3: when a batch has ended, success_count plus the number of error entries is
\* the number of sources of the batch, the signal is one of the three summaries
\* (all, partial, none) and success = FALSE is emitted only when no source
\* succeeded.
C3_BatchOutcome ==
    BatchEnded =>
        /\ slicer_thread.success_count + Len(slicer_thread.errors)
              = Len(slicer_thread.image_paths)
        /\ s_last.message.form \in {"all", "partial", "none"}
        /\ s_last.message.form = "all" =>
              s_last.success /\ slicer_thread.errors = <<>>
        /\ s_last.message.form = "partial" => s_last.success
        /\ s_last.message.form = "none" =>
              ~s_last.success /\ Len(s_last.message.failed) = Len(slicer_thread.image_paths)
        /\ ~s_last.success => \A i \in 1..Len(s_calls) : s_calls[i].outcome # "ok"

\* C4: while a batch runs, the list the SlicerThread iterates over is the slice
\* list as it was when start_slicing was invoked.
C4_SliceJobImmutable ==
    slicer_thread.pc \in {"loop", "report"} =>
        slicer_thread.image_paths = slice_job.image_paths


\* C5: while a stitch job runs, the source list, split count, target width and
\* size limit the StitcherThread holds are those of the merge tab when
\* start_stitching was invoked, whatever was dropped, cleared or moved since.
C5_StitchJobImmutable ==
    stitch_thread.pc = "run" =>
        /\ stitch_thread.image_paths = stitch_job.image_paths
        /\ stitch_thread.split_count = stitch_job.split_value
        /\ stitch_thread.target_width
              = MergeWidth(stitch_job.radio, stitch_job.custom_text).width
        /\ stitch_thread.max_kb = 200 * stitch_job.limit_value

\* a job runs while the list, the split slider, the limit slider and the radio
\* have all been changed since it was started
C5_Witness ==
    /\ stitch_thread.pc = "run"
    /\ merge_images # stitch_job.image_paths
    /\ merge_images # <<>>
    /\ m_split_value # stitch_job.split_value
    /\ m_limit_value # stitch_job.limit_value
    /\ m_radio # stitch_job.radio

\* C6: the split slider's value lies in 1..maximum, its maximum is
\* max(1, len(merge_images)), and the group count of every stitch job lies in
\* 1..number of sources of that job.
C6_SplitWithinSources ==
    /\ 1 <= m_split_value
    /\ m_split_value <= m_split_max
    /\ m_split_max = Max(1, Len(merge_images))
    /\ stitch_thread.pc # "none" =>
          /\ 1 <= stitch_thread.split_count
          /\ stitch_thread.split_count <= Len(stitch_thread.image_paths)

\* a job over three sources in three groups runs, the list cleared since
C6_Witness ==
    /\ stitch_thread.pc = "run"
    /\ stitch_thread.split_count = 3
    /\ Len(stitch_thread.image_paths) = 3
    /\ merge_images = <<>>
    /\ m_split_max = 1

\* C7: merge_images holds each of its paths once and is the one sequence its
\* set of paths sorts to, in whatever order the paths were collected.
C7_MergeOrderDeterministic ==
    /\ Cardinality(Range(merge_images)) = Len(merge_images)
    /\ \A order \in Orders(Range(merge_images)) : sort_files(order) = merge_images

\* C8: a step that adds paths to merge_images leaves the paths already listed
\* in the order they had.
C8_DropKeepsOrder ==
    [][(merge_images # <<>> /\ Range(merge_images) \subseteq Range(merge_images'))
         => SelectSeq(merge_images', LAMBDA p : p \in Range(merge_images)) = merge_images]_vars

\* the limit in KB a label text shows; "1 MB" is 1000 KB
ShownKB(label) ==
    CASE label.form = "unlimited" -> 0
      [] label.form = "mb" -> 1000 * label.n
      [] OTHER -> label.n

\* C9: each limit slider stands at 0..5, its label shows 200 times that position
\* in KB and shows "unlimited" exactly at 0, and the limit a job holds is 200 times
\* the position the slider had when the job was started, one of 0, 200, ..., 1000.
C9_LimitAndLabel ==
    /\ m_limit_value \in 0..5
    /\ s_limit_value \in 0..5
    /\ ShownKB(m_limit_label) = 200 * m_limit_value
    /\ ShownKB(s_limit_label) = 200 * s_limit_value
    /\ m_limit_label.form = "unlimited" <=> 200 * m_limit_value = 0
    /\ s_limit_label.form = "unlimited" <=> 200 * s_limit_value = 0
    /\ stitch_thread.pc # "none" =>
          /\ stitch_thread.max_kb = 200 * stitch_job.limit_value
          /\ stitch_thread.max_kb \in {0, 200, 400, 600, 800, 1000}
    /\ slicer_thread.pc # "none" =>
          /\ slicer_thread.max_kb = 200 * slice_job.limit_value
          /\ slicer_thread.max_kb \in {0, 200, 400, 600, 800, 1000}

\* a stitch job was started at 1000 KB and a slice batch at unlimited, and both
\* sliders were moved since
C9_Witness ==
    /\ stitch_thread.pc # "none"
    /\ stitch_thread.max_kb = 1000
    /\ slicer_thread.pc # "none"
    /\ slicer_thread.max_kb = 0
    /\ m_limit_label = LabelUnlimited
    /\ s_limit_label = LabelMB

\* C10: a job emits at most one finished signal, exactly one once its run() has
\* ended, an exception of the engine giving success = FALSE with the exception's
\* text; and every started stitch job and slice batch leads to its run() ended,
\* one signal emitted and the start button enabled.
C10_JobSignals ==
    /\ m_emits <= 1
    /\ s_emits <= 1
    /\ stitch_thread.pc = "finished" =>
          /\ m_emits = 1
          /\ m_last.outcome = "raise" => m_last.signal = Signal(FALSE, ExceptionText)
          /\ m_last.outcome = "ok" => m_last.signal.success
    /\ slicer_thread.pc = "finished" =>
          /\ s_emits = 1
          /\ ~NoCallRaised => s_last = Signal(FALSE, ExceptionText)

C10_JobFinishes ==
    /\ []C10_JobSignals
    /\ (stitch_thread.pc = "run")
          ~> (stitch_thread.pc = "finished" /\ m_emits = 1 /\ m_start_enabled)
    /\ (slicer_thread.pc \in {"loop", "report"})
          ~> (slicer_thread.pc = "finished" /\ s_emits = 1 /\ s_start_enabled)

\* both jobs have ended on an exception, their signals handled
C10_Witness ==
    /\ stitch_thread.pc = "finished"
    /\ m_last.outcome = "raise"
    /\ m_signals = <<>>
    /\ m_start_enabled
    /\ slicer_thread.pc = "finished"
    /\ ~NoCallRaised
    /\ s_signals = <<>>
    /\ s_start_enabled

\* a stitch job is in flight from its dispatch until its finished signal is handled
StitchInFlight == stitch_thread.pc = "run" \/ m_signals # <<>>
\* a slice batch is in flight from its dispatch until its finished signal is handled
SliceInFlight == slicer_thread.pc \in {"loop", "report"} \/ s_signals # <<>>

\* a step that dispatches a stitch job
StitchDispatch == m_jobs' # m_jobs \/ (stitch_thread'.pc = "run" /\ stitch_thread.pc # "run")
\* a step that dispatches a slice batch
SliceDispatch == s_jobs' # s_jobs \/ (slicer_thread'.pc = "loop" /\ slicer_thread.pc # "loop")

C11_ButtonsFollowJobs ==
    /\ m_start_enabled <=> ~StitchInFlight
    /\ s_start_enabled <=> ~SliceInFlight
    /\ ~(stitch_thread.pc = "run" /\ m_signals # <<>>)
    /\ ~(slicer_thread.pc \in {"loop", "report"} /\ s_signals # <<>>)
    /\ Len(m_signals) <= 1
    /\ Len(s_signals) <= 1

C11_DispatchWhenIdle ==
    /\ StitchDispatch => (~StitchInFlight /\ last_event'.handler = "start_stitching")
    /\ SliceDispatch => (~SliceInFlight /\ last_event'.handler = "start_slicing")

C12_JobsHaveSources ==
    /\ stitch_thread.pc # "none"
        => (stitch_job.image_paths # <<>> /\ stitch_thread.image_paths # <<>>)
    /\ slicer_thread.pc # "none"
        => (slice_job.image_paths # <<>> /\ slicer_thread.image_paths # <<>>)

\* a start handler that finds its list empty changes nothing and leaves its button enabled
C12_EmptyStartIsNoOp ==
    /\ (last_event'.handler = "start_stitching" /\ merge_images = <<>>)
        => (UNCHANGED vars /\ m_start_enabled')
    /\ (last_event'.handler = "start_slicing" /\ slice_images = <<>>)
        => (UNCHANGED vars /\ s_start_enabled')

\* C12: no stitch job and no slice batch is dispatched with an empty source
\* list: start_stitching and start_slicing invoked with an empty list create no
\* thread, leave the start button enabled and change no other state.
C12_NoEmptyJob == []C12_JobsHaveSources /\ [][C12_EmptyStartIsNoOp]_observed_vars

\* start_stitching has just run on the empty merge list, the slice list being
\* filled: there is no stitch thread and the button is enabled
C12_Witness ==
    /\ last_event.handler = "start_stitching"
    /\ merge_images = <<>>
    /\ slice_images # <<>>
    /\ stitch_thread.pc = "none"
    /\ m_start_enabled

\* the width of a stitch job, given the radio and the custom text it was started under
C13_StitchWidth ==
    stitch_thread.pc # "none" =>
        LET val_text == StripText(stitch_job.custom_text)
        IN  /\ stitch_thread.target_width.none <=> stitch_job.radio = "original"
            /\ stitch_job.radio = "750" => stitch_thread.target_width = Width(750)
            /\ stitch_job.radio = "1080" => stitch_thread.target_width = Width(1080)
            /\ stitch_job.radio = "custom" =>
                    /\ IsIntText(val_text)
                    /\ stitch_thread.target_width = Width(IntOf(val_text))

\* the width of a slice batch, given the radio and the custom text it was started under
C13_SliceWidth ==
    slicer_thread.pc # "none" =>
        LET val_text == StripText(slice_job.custom_text)
        IN  /\ slicer_thread.target_width.none <=> slice_job.radio = "original"
            /\ slice_job.radio = "custom" =>
                    IF val_text = <<>>
                    THEN slicer_thread.target_width = Width(750)
                    ELSE /\ IsIntText(val_text)
                         /\ slicer_thread.target_width = Width(IntOf(val_text))

\* start_stitching under the custom radio with an empty or non-integer field
\* changes nothing; start_slicing under the custom radio with an empty field and
\* a non-empty list dispatches the batch with width 750
C13_CustomFieldCases ==
    /\ (/\ last_event'.handler = "start_stitching"
         /\ m_radio = "custom"
         /\ ~IsIntText(StripText(m_custom_text)))
        => (UNCHANGED vars /\ m_start_enabled')
    /\ (/\ last_event'.handler = "start_slicing"
         /\ s_radio = "custom"
         /\ StripText(s_custom_text) = <<>>
         /\ slice_images # <<>>)
        => (/\ s_jobs' = s_jobs + 1
            /\ slicer_thread'.pc = "loop"
            /\ slicer_thread'.target_width = Width(750)
            /\ ~s_start_enabled')

\* C13: the target width handed to a job is null exactly when the original-size
\* radio is selected; otherwise it is the preset (750 or 1080) or the integer
\* typed in the custom field.  With the custom radio selected and an empty or
\* non-integer custom field start_stitching dispatches no job and leaves the
\* start button enabled, whereas start_slicing with an empty custom field
\* dispatches the batch with width 750.
C13_TargetWidth ==
    /\ [](C13_StitchWidth /\ C13_SliceWidth)
    /\ [][C13_CustomFieldCases]_observed_vars

\* start_stitching has just refused a non-integer custom field over a filled
\* list, and a slice batch started under an empty custom field has width 750
C13_Witness ==
    /\ last_event.handler = "start_stitching"
    /\ merge_images # <<>>
    /\ m_radio = "custom"
    /\ m_custom_text = <<"x">>
    /\ stitch_thread.pc = "none"
    /\ m_start_enabled
    /\ slicer_thread.pc = "loop"
    /\ slice_job.radio = "custom"
    /\ slice_job.custom_text = <<>>
    /\ slicer_thread.target_width = Width(750)

\* what a drop leaves alone, by the tab it lands on and by the files it brings
C14_DropFrame ==
    last_event'.handler = "dropEvent" =>
        LET files == last_event'.files
            merge_kept == /\ merge_images' = merge_images
                          /\ m_split_max' = m_split_max
                          /\ m_split_value' = m_split_value
            slice_kept == slice_images' = slice_images
        IN  /\ tab = 0 => slice_kept
            /\ tab = 1 => merge_kept
            /\ (\A i \in 1..Len(files) : ~IsSupported(files[i])) => (merge_kept /\ slice_kept)

\* both lists hold files of supported extensions only
C14_OnlySupported ==
    \A p \in Range(merge_images) \cup Range(slice_images) : IsSupported(p)

\* C14: a drop changes only the list of the currently selected tab: a drop on
\* the merge tab leaves slice_images unchanged, a drop on the slice tab leaves
\* merge_images and the split slider's range unchanged, and a drop with no file
\* of a supported extension (.jpg, .jpeg, .png, .psd, in any case) leaves both
\* lists and the slider unchanged; a file of an unsupported extension is never
\* in either list.
C14_DropChangesOneList == []C14_OnlySupported /\ [][C14_DropFrame]_observed_vars

\* a text file and an upper-case .JPG have just been dropped on the slice tab:
\* the slice list holds the .JPG alone, the merge list and its slider stand as
\* two earlier files left them
C14_Witness ==
    /\ last_event = Event("dropEvent", <<TXT, PJ>>)
    /\ tab = 1
    /\ slice_images = <<PJ>>
    /\ Range(merge_images) = {P2, PJ}
    /\ m_split_max = 2

\* slice_images holds no path twice
C15_NoDuplicate ==
    \A i, j \in 1..Len(slice_images) : i # j => slice_images[i] # slice_images[j]

\* a drop on the slice tab keeps the list it finds as a prefix and adds after it
\* the supported files of the drop that the list did not hold, each once, in the
\* order of their first places in the drop
C15_DropAppends ==
    (last_event'.handler = "dropEvent" /\ tab = 1) =>
        LET files == last_event'.files
            old == slice_images
            new == slice_images'
            added == SubSeq(new, Len(old) + 1, Len(new))
            FirstPlace(p) == CHOOSE i \in 1..Len(files) :
                                 files[i] = p /\ \A j \in 1..(i - 1) : files[j] # p
        IN  /\ Len(new) >= Len(old)
            /\ SubSeq(new, 1, Len(old)) = old
            /\ Range(added) = { p \in Range(files) : IsSupported(p) } \ Range(old)
            /\ \A i, j \in 1..Len(added) :
                    i < j => FirstPlace(added[i]) < FirstPlace(added[j])

\* clear_slice_list leaves the list empty
C15_ClearEmpties == last_event'.handler = "clear_slice_list" => slice_images' = <<>>

\* C15: after any sequence of slice-tab drops and clear_slice_list calls
\* slice_images holds no duplicate path, and a drop only appends: the entries
\* present before the drop keep their positions and the new paths come after
\* them in drop order.
C15_SliceListAppendOnly ==
    /\ []C15_NoDuplicate
    /\ [][C15_DropAppends /\ C15_ClearEmpties]_observed_vars

\* a/p8.JPG and a/p2.png have just been dropped, in this order, on a slice list
\* that held a/p2.png: a/p2.png keeps the first place and a/p8.JPG follows it
C15_Witness ==
    /\ last_event = Event("dropEvent", <<PJ, P2>>)
    /\ tab = 1
    /\ slice_images = <<P2, PJ>>

=============================================================================
